---- MODULE Spec2Model ----
(***************************************************************************)
(* State-machine model of the forwarding-session supervision engine of     *)
(* kubectlpf (src/portforward.js): getPods, getPodId, portForwardPod,      *)
(* healthCheck / tryReinitPod, processKubectlLog, formalInit and the       *)
(* exit/cleanup plumbing.  Every callback of the Node event loop is one    *)
(* atomic action.                                                          *)
(***************************************************************************)
EXTENDS Integers, Sequences, FiniteSets, TLC

(* ---------------------------- bounds ----------------------------------- *)
\* a run with two sessions: tunnel processes spawned in the run, and
\* tryReinitPod closures of one session that can be pending at once
DuoProcs == 3
DuoChains == 1
\* a run with one session: the same two limits
SoloProcs == 3
SoloChains == 2
\* a run with one session whose workload may stay away for good
RetryProcs == 2
RetryChains == 1
\* healthCheck queries in flight at once
MaxHealthInFlight == 1
\* consecutive network errors
MaxNetErr == 1
\* failed matches a chain sees before the workload is listed again,
\* in the runs where the workload does come back
MaxWait == 1

(* ----------------------- program constants ----------------------------- *)
maxAttempt == 20

(* ------------------------- configuration ------------------------------- *)
\* the sessions of the run (indices into the initial runningPods) and
\* their names, as sequences of characters
Pods == {1, 2}

PodName == <<  <<"w">>, <<"d">> >>

NoProc == 0
NoTimer == 0
NoId == << >>
NoCall == << >>

(* ------------------------ cluster tables ------------------------------- *)
\* one line of `kubectl get pods`: the name token and the READY column,
\* as sequences of characters, and the STATUS column
LineOf(n, r, s) == [name |-> n, ready |-> r, status |-> s]

Line(n, s) ==
  LineOf(n, IF s = "Running" THEN << "1", "/", "1" >>
                             ELSE << "0", "/", "1" >>, s)

WBlocks ==
  { << >>,
    << Line(<<"w","1">>, "Running") >>,
    << Line(<<"w","1">>, "Pending") >>,
    << Line(<<"w","2">>, "Running") >>,
    << Line(<<"w","1","0">>, "Running") >>,
    << Line(<<"w","1">>, "Pending"), Line(<<"w","2">>, "Running") >>,
    << Line(<<"w","1">>, "Running"), Line(<<"w","2">>, "Running") >> }

DBlocks ==
  { << >>,
    << Line(<<"d","1">>, "Running") >>,
    << Line(<<"d","1">>, "Pending") >> }

Tables == { w \o d : w \in WBlocks, d \in DBlocks }

\* what kubectl writes to stderr when it fails, as the phrases of the
\* text
Stderrs ==
  { << "Unable to connect to the server", "network is unreachable" >>,
    << "Unable to connect to the server", "net/http: TLS",
       "handshake timeout" >>,
    << "dial tcp", "connect", "network is down" >>,
    << "dial tcp", "i/o timeout" >>,
    << "The connection to the server", "was refused" >> }

\* IsNetworkError without the i/o timeout signature
IsNetworkErrorNoTimeout(stderr) ==
  \E i \in 1..Len(stderr) :
    stderr[i] \in { "network is unreachable", "handshake timeout",
                    "network is down" }

\* the four stderr.match(...) of line 63
IsNetworkError(stderr) ==
  \E i \in 1..Len(stderr) :
    stderr[i] \in { "network is unreachable", "handshake timeout",
                    "network is down", "i/o timeout" }

\* the exec callback of getPods with an error, lines 62-76
Failed(stderr) ==
  [kind |-> IF IsNetworkError(stderr) THEN "neterr" ELSE "fatal",
   table |-> << >>, stderr |-> stderr]

\* results of one `kubectl get pods`: the table, a recognised network
\* error, or any other failure
Results ==
  { [kind |-> "ok", table |-> t, stderr |-> << >>] : t \in Tables }
    \cup { Failed(e) : e \in Stderrs }

(* --------------------------- pure helpers ------------------------------ *)
StartsWith(s, p) ==
  /\ Len(p) <= Len(s)
  /\ SubSeq(s, 1, Len(p)) = p

Contains(s, p) ==
  \E i \in 1..(Len(s) - Len(p) + 1) : SubSeq(s, i, i + Len(p) - 1) = p

\* lines[count].startsWith(podName)
FilterPods(rawPods, podName) ==
  SelectSeq(rawPods, LAMBDA l : StartsWith(l.name, podName))

\* index of the first filtered line on which the regex
\* (podName[-\da-z]*).*(Running) matches, 0 if there is none
FirstRunning(lines) ==
  IF \E i \in 1..Len(lines) : lines[i].status = "Running"
  THEN CHOOSE i \in 1..Len(lines) :
         /\ lines[i].status = "Running"
         /\ \A j \in 1..(i - 1) : lines[j].status # "Running"
  ELSE 0

Digits == { "0", "1", "2", "3", "4", "5", "6", "7", "8", "9" }

\* the statuses of the tables that [a-zA-Z]* matches up to the next
\* white space (Init:0/1 is not one)
LetterStatuses == { "Running", "Pending" }

\* [\s]*[\d]\/[\d][\s]*([a-zA-Z]*)[\s] after the name: the READY column
\* is one digit, a slash, one digit, followed by white space
ReadyMatch(l) ==
  /\ Len(l.ready) = 3
  /\ l.ready[1] \in Digits
  /\ l.ready[2] = "/"
  /\ l.ready[3] \in Digits

\* index of the first filtered line on which the second regex matches, 0
\* if there is none
FirstError(lines) ==
  IF \E i \in 1..Len(lines) : ReadyMatch(lines[i])
  THEN CHOOSE i \in 1..Len(lines) :
         /\ ReadyMatch(lines[i])
         /\ \A j \in 1..(i - 1) : ~ReadyMatch(lines[j])
  ELSE 0

\* errorMatch[2]: the letters between the READY column and the next white
\* space, none if the status does not start right there as a word
ErrorStatus(l) == IF l.status \in LetterStatuses THEN l.status ELSE ""

\* getPodId(rawPods, podName, silent): [found, id, threw, error], error
\* being the status named by the thrown message, "unknown" for 'Could not
\* find pod'
getPodId(rawPods, podName, silent) ==
  LET joined == FilterPods(rawPods, podName)
      k == FirstRunning(joined)
      e == FirstError(joined)
  IN  IF k # 0
      THEN [found |-> TRUE, id |-> joined[k].name, threw |-> FALSE,
            error |-> "none"]
      ELSE IF silent
      THEN [found |-> FALSE, id |-> NoId, threw |-> FALSE, error |-> "none"]
      ELSE IF e # 0
      THEN [found |-> FALSE, id |-> NoId, threw |-> TRUE,
            error |-> ErrorStatus(joined[e])]
      ELSE [found |-> FALSE, id |-> NoId, threw |-> TRUE,
            error |-> "unknown"]

\* (new RegExp('(' + pod.id + ').*(Running)', 'g')).exec(rawPods)
HealthMatch(rawPods, podId) ==
  \E i \in 1..Len(rawPods) :
    /\ Contains(rawPods[i].name, podId)
    /\ rawPods[i].status = "Running"

(* ------------------------------ state ---------------------------------- *)
VARIABLES
  runningPods,      \* the active set, in order
  id,               \* pod.id
  initialized,      \* pod.initialized
  restartingState,  \* pod.restartingState
  excluded,         \* pod.excluded
  childProcess,     \* pod.childProcess (a pid, NoProc when undefined)
  initInterval,     \* pod.initInterval (a chain slot, NoTimer when undefined)
  procs,            \* the spawned kubectl port-forward processes, by pid
  chains,           \* the tryReinitPod closures of each session
  restartAttempt,   \* the module-level restartAttempt
  healthPending,    \* getPods calls of healthCheck whose callback is due
  initPc,           \* where formalInit is
  healthTimer,      \* setInterval(healthCheck, healthInterval) is armed
  exited,           \* the run has ended
  exitCode,         \* with this code
  exitReason,       \* through this path of the code
  failedCount,      \* failedCount of cleanup()
  stable,           \* the cluster and the network have settled
  lim,              \* the limits of this run: [procs, chains, wait]
  call,             \* the arguments of a function applied on its own
  ret               \* and what it returned

vars == << runningPods, id, initialized, restartingState, excluded,
           childProcess, initInterval, procs, chains, restartAttempt,
           healthPending, initPc, healthTimer, exited, exitCode,
           exitReason, failedCount, stable, lim, call, ret >>

\* what no handler of the program writes
envVars == << stable, lim, call, ret >>

podVars == << id, initialized, restartingState, excluded, childProcess,
              initInterval >>

IdleChain == [st |-> "idle", attempt |-> 0]

InSeq(s, x) == \E i \in 1..Len(s) : s[i] = x

Active(p) == InSeq(runningPods, p)


(* ------------------- the program state as a record --------------------- *)
\* Handlers are composed from the functions below, which map a program
\* state to the state after the call.  ovf is set when a call would need
\* more processes or closures than the bounds allow, threw when the
\* handler has thrown.
Cur ==
  [runningPods |-> runningPods, id |-> id, initialized |-> initialized,
   restartingState |-> restartingState, excluded |-> excluded,
   childProcess |-> childProcess, initInterval |-> initInterval,
   procs |-> procs, chains |-> chains, restartAttempt |-> restartAttempt,
   healthPending |-> healthPending, initPc |-> initPc,
   healthTimer |-> healthTimer, exited |-> exited, exitCode |-> exitCode,
   exitReason |-> exitReason, failedCount |-> failedCount,
   lim |-> lim, ovf |-> FALSE, threw |-> FALSE]

Commit(s) ==
  /\ ~s.ovf
  /\ runningPods' = s.runningPods
  /\ id' = s.id
  /\ initialized' = s.initialized
  /\ restartingState' = s.restartingState
  /\ excluded' = s.excluded
  /\ childProcess' = s.childProcess
  /\ initInterval' = s.initInterval
  /\ procs' = s.procs
  /\ chains' = s.chains
  /\ restartAttempt' = s.restartAttempt
  /\ healthPending' = s.healthPending
  /\ initPc' = s.initPc
  /\ healthTimer' = s.healthTimer
  /\ exited' = s.exited
  /\ exitCode' = s.exitCode
  /\ exitReason' = s.exitReason
  /\ failedCount' = s.failedCount

\* child.kill(): a signal to a process that has not ended yet; the
\* 'close' event follows later
Kill(s, pid) ==
  IF pid # NoProc /\ s.procs[pid].st = "live"
  THEN [s EXCEPT !.procs[pid].st = "killed"]
  ELSE s

RECURSIVE ForEach(_, _, _, _)
\* runningPods.forEach(pod => f(pod)), over a snapshot of the list; x is
\* what the callback closes over
ForEach(f(_, _, _), s, pods, x) ==
  IF pods = << >> THEN s
  ELSE ForEach(f, f(s, Head(pods), x), Tail(pods), x)

\* cleanup(), run by the 'exit' event: every session of the active set
\* gets a kill (a session without a process makes kill throw, which is
\* caught)
\* CleanupPod with the first kill that throws ending the loop
CleanupPodStops(s, p, x) ==
  IF s.failedCount > 0 THEN s
  ELSE IF s.childProcess[p] = NoProc
  THEN [s EXCEPT !.failedCount = @ + 1]
  ELSE Kill(s, s.childProcess[p])

CleanupPod(s, p, x) ==
  IF s.childProcess[p] = NoProc
  THEN [s EXCEPT !.failedCount = @ + 1]
  ELSE Kill(s, s.childProcess[p])

cleanup(s) ==
  ForEach(CleanupPod, [s EXCEPT !.failedCount = 0], s.runningPods, 0)

\* process.exit(code) and the 'exit' handler.  The event loop ends with
\* the process: callbacks that were due and timers that were armed are
\* dropped.
ProcessExit(s, code) ==
  [cleanup(s) EXCEPT
     !.exited = TRUE,
     !.exitCode = code,
     !.healthPending = 0,
     !.healthTimer = FALSE,
     !.chains = [p \in Pods |-> [c \in 1..s.lim.chains |-> IdleChain]]]

\* the run ends through the named path of the code
Exit(s, code, reason) == [ProcessExit(s, code) EXCEPT !.exitReason = reason]

\* NetErrPod with the session also marked as restarting
NetErrPodMarks(s, p, x) ==
  IF s.initialized[p]
  THEN Kill([s EXCEPT !.initialized[p] = FALSE,
                      !.restartingState[p] = TRUE], s.childProcess[p])
  ELSE s

\* getPods, error branch with a recognised network error (lines 63-72)
NetErrPod(s, p, x) ==
  IF s.initialized[p]
  THEN Kill([s EXCEPT !.initialized[p] = FALSE], s.childProcess[p])
  ELSE s

GetPodsNetErr(s) ==
  ForEach(NetErrPod, [s EXCEPT !.restartAttempt = @ + 1], s.runningPods, 0)

\* getPods, success branch (lines 77-81)
GetPodsOk(s) == [s EXCEPT !.restartAttempt = 0]

\* getPods, any other failure: `throw stderr` in the exec callback is an
\* uncaught exception, which ends the process with code 1
GetPodsFatal(s) == Exit(s, 1, "fatal")

\* portForwardPod(pod): spawn and store the handle
portForwardPod(s, p) ==
  IF Len(s.procs) >= s.lim.procs
  THEN [s EXCEPT !.ovf = TRUE]
  ELSE [s EXCEPT
          !.procs = Append(@, [owner |-> p, st |-> "live",
                               target |-> s.id[p]]),
          !.childProcess[p] = Len(s.procs) + 1]

\* clearTimeout(pod.initInterval), guarded by `if (pod.initInterval)`
ClearInitInterval(s, p) ==
  LET c == s.initInterval[p]
  IN  IF c # NoTimer /\ s.chains[p][c].st = "timer"
      THEN [s EXCEPT !.chains[p][c] = IdleChain]
      ELSE s

FreeSlots(s, p) == { c \in 1..s.lim.chains : s.chains[p][c].st = "idle" }

Min(S) == CHOOSE x \in S : \A y \in S : x <= y

\* the first call of tryReinitPod of a new closure: attempt = 0 and a
\* getPods is issued
StartReinit(s, p) ==
  IF FreeSlots(s, p) = {}
  THEN [s EXCEPT !.ovf = TRUE]
  ELSE [s EXCEPT !.chains[p][Min(FreeSlots(s, p))] =
                    [st |-> "query", attempt |-> 0]]

\* healthCheck, lines 159-190
DeclareDead(s, p) ==
  LET s1 == [s EXCEPT !.restartingState[p] = TRUE]
      s2 == Kill(s1, s1.childProcess[p])
      s3 == [s2 EXCEPT !.initialized[p] = FALSE]
      s4 == ClearInitInterval(s3, p)
  IN  StartReinit(s4, p)

\* the condition of lines 156-158
IsDead(s, rawPods, p) ==
  /\ ~s.restartingState[p]
  /\ \/ ~HealthMatch(rawPods, s.id[p])
     \/ ~s.initialized[p]


(* ---------------------------- environment ------------------------------ *)
\* once the cluster has settled every query succeeds and lists a Running
\* instance of every configured workload
GoodTable(t) == \A p \in Pods : getPodId(t, PodName[p], TRUE).found

EnvAllows(r) ==
  /\ stable => (r.kind = "ok" /\ GoodTable(r.table))
  /\ r.kind = "neterr" => restartAttempt < MaxNetErr

LogKinds ==
  { "established", "handling", "fwderror", "portinuse", "permdenied",
    "other" }

Signals == { 1, 2, 15 }

(* ------------------------------ startup -------------------------------- *)
\* runningPods[key].id = getPodId(rawPods, pod.name, false), lines 370-372
ResolvePod(s, p, rawPods) ==
  IF s.threw THEN s
  ELSE LET r == getPodId(rawPods, PodName[p], FALSE)
       IN  IF r.threw THEN [s EXCEPT !.threw = TRUE]
           ELSE [s EXCEPT !.id[p] = r.id]

\* runningPods.forEach((pod) => { portForwardPod(pod); }), lines 373-375
SpawnPod(s, p, x) == portForwardPod(s, p)

\* ResolvePod with the tunnel spawned as soon as its own instance is
\* resolved
ResolveAndSpawnPod(s, p, rawPods) ==
  IF s.threw THEN s
  ELSE LET r == getPodId(rawPods, PodName[p], FALSE)
       IN  IF r.threw THEN [s EXCEPT !.threw = TRUE]
           ELSE portForwardPod([s EXCEPT !.id[p] = r.id], p)

\* formalInit with one pass over the sessions
formalInitOnePass(s, r) ==
  IF r.kind = "neterr"
  THEN [GetPodsNetErr(s) EXCEPT !.initPc = "timer"]
  ELSE IF r.kind = "fatal"
  THEN GetPodsFatal(s)
  ELSE LET s1 == ForEach(ResolveAndSpawnPod, GetPodsOk(s), s.runningPods,
                         r.table)
       IN  IF s1.threw
           THEN Exit([s1 EXCEPT !.initPc = "failed"], 0, "initfailed")
           ELSE [s1 EXCEPT !.healthTimer = TRUE, !.initPc = "done"]

\* the getPods callback of formalInit, lines 367-383
formalInit(s, r) ==
  IF r.kind = "neterr"
  THEN [GetPodsNetErr(s) EXCEPT !.initPc = "timer"]
  ELSE IF r.kind = "fatal"
  THEN GetPodsFatal(s)
  ELSE LET s1 == ForEach(ResolvePod, GetPodsOk(s), s.runningPods, r.table)
       IN  IF s1.threw
           \* the error is logged; nothing is pending any more, so the
           \* event loop drains and the process ends with code 0
           THEN Exit([s1 EXCEPT !.initPc = "failed"], 0, "initfailed")
           ELSE [ForEach(SpawnPod, s1, s1.runningPods, 0) EXCEPT
                   !.healthTimer = TRUE, !.initPc = "done"]

FormalInitDone(r) ==
  /\ ~exited
  /\ initPc = "query"
  /\ EnvAllows(r)
  /\ Commit(formalInit(Cur, r))
  /\ UNCHANGED envVars

\* setTimeout(formalInit, healthInterval) fires
FormalInitTimer ==
  /\ ~exited
  /\ initPc = "timer"
  /\ initPc' = "query"
  /\ UNCHANGED << runningPods, podVars, procs, chains, restartAttempt,
                  healthPending, healthTimer, exited, exitCode,
                  exitReason, failedCount, envVars >>

(* ---------------------------- health check ----------------------------- *)
\* healthCheck(): issue the getPods (from the interval or from a
\* 'forwarding error' log line)
healthCheck(s) ==
  IF s.healthPending >= MaxHealthInFlight
  THEN [s EXCEPT !.ovf = TRUE]
  ELSE [s EXCEPT !.healthPending = @ + 1]

Tick ==
  /\ ~exited
  /\ healthTimer
  /\ Commit(healthCheck(Cur))
  /\ UNCHANGED envVars

\* the body of runningPods.forEach in healthCheck, lines 155-193
CheckPod(s, p, rawPods) ==
  IF IsDead(s, rawPods, p) THEN DeclareDead(s, p) ELSE s

\* the getPods callback of healthCheck, lines 153-194
healthCheckCallback(s, r) ==
  LET s0 == [s EXCEPT !.healthPending = @ - 1]
  IN  IF r.kind = "neterr" THEN GetPodsNetErr(s0)
      ELSE IF r.kind = "fatal" THEN GetPodsFatal(s0)
      ELSE ForEach(CheckPod, GetPodsOk(s0), s0.runningPods, r.table)

HealthCheckDone(r) ==
  /\ ~exited
  /\ healthPending > 0
  /\ EnvAllows(r)
  /\ Commit(healthCheckCallback(Cur, r))
  /\ UNCHANGED envVars

(* ---------------------- reconnection protocol -------------------------- *)
\* tryReinitPod with the next attempt scheduled after a successful match
\* as well
tryReinitPodKeepsPolling(s, p, c, r) ==
  IF r.kind = "neterr"
  THEN [GetPodsNetErr(s) EXCEPT !.chains[p][c] = IdleChain]
  ELSE IF r.kind = "fatal"
  THEN GetPodsFatal(s)
  ELSE LET s1 == GetPodsOk(s)
           m == getPodId(r.table, PodName[p], TRUE)
           ch == s1.chains[p][c]
           s2 == IF m.found
                 THEN portForwardPod([s1 EXCEPT !.id[p] = m.id], p)
                 ELSE s1
       IN  IF ch.attempt >= maxAttempt
           THEN Exit(s2, 0, "exhausted")
           ELSE [s2 EXCEPT
                   !.chains[p][c] = [st |-> "timer",
                                     attempt |-> ch.attempt + 1],
                   !.initInterval[p] = c]

\* the getPods callback of tryReinitPod, lines 169-185, for the closure in
\* slot c of session p
tryReinitPod(s, p, c, r) ==
  IF r.kind = "neterr"
  THEN [GetPodsNetErr(s) EXCEPT !.chains[p][c] = IdleChain]
  ELSE IF r.kind = "fatal"
  THEN GetPodsFatal(s)
  ELSE LET s1 == GetPodsOk(s)
           m == getPodId(r.table, PodName[p], TRUE)
           ch == s1.chains[p][c]
       IN  IF m.found
           THEN portForwardPod(
                  [s1 EXCEPT !.id[p] = m.id, !.chains[p][c] = IdleChain], p)
           ELSE IF ch.attempt >= maxAttempt
           THEN Exit(s1, 0, "exhausted")
           ELSE [s1 EXCEPT
                   !.chains[p][c] = [st |-> "timer",
                                     attempt |-> ch.attempt + 1],
                   !.initInterval[p] = c]

TryReinitDone(p, c, r) ==
  /\ ~exited
  /\ chains[p][c].st = "query"
  /\ EnvAllows(r)
  /\ \/ r.kind # "ok"
     \/ getPodId(r.table, PodName[p], TRUE).found
     \/ chains[p][c].attempt < lim.wait
  /\ Commit(tryReinitPod(Cur, p, c, r))
  /\ UNCHANGED envVars

\* setTimeout(tryReinitPod, attemptDuration) fires
RetryTimer(p, c) ==
  /\ ~exited
  /\ chains[p][c].st = "timer"
  /\ chains' = [chains EXCEPT ![p][c].st = "query"]
  /\ UNCHANGED << runningPods, podVars, procs, restartAttempt,
                  healthPending, initPc, healthTimer, exited, exitCode,
                  exitReason, failedCount, envVars >>

(* ------------------------- tunnel processes ---------------------------- *)
\* _.pull(runningPods, pod)
Pull(pods, p) == SelectSeq(pods, LAMBDA q : q # p)

\* Exclude with the run ended whatever is left in the active set
ExcludeAlwaysExits(s, p, child) ==
  IF s.excluded[p] THEN s
  ELSE LET s1 == Kill([s EXCEPT !.excluded[p] = TRUE], child)
           s2 == [s1 EXCEPT !.runningPods = Pull(@, p)]
       IN  Exit(s2, 0, "excluded")

\* lines 208-218
Exclude(s, p, child) ==
  IF s.excluded[p] THEN s
  ELSE LET s1 == Kill([s EXCEPT !.excluded[p] = TRUE], child)
           s2 == [s1 EXCEPT !.runningPods = Pull(@, p)]
       IN  IF s2.runningPods = << >> THEN Exit(s2, 0, "excluded") ELSE s2

\* OnForwardingFrom taken as the start of a fresh tunnel whatever the
\* session's flags are
OnForwardingFromResets(s, p) ==
  [s EXCEPT !.initialized[p] = TRUE, !.restartingState[p] = FALSE]

\* 'Forwarding from', lines 198-202
OnForwardingFrom(s, p) ==
  IF ~s.initialized[p] THEN [s EXCEPT !.initialized[p] = TRUE] ELSE s

\* OnForwardingError with the session declared dead at the line itself
OnForwardingErrorRestarts(s, p) == DeclareDead(s, p)

\* 'an error occurred forwarding', lines 205-207
OnForwardingError(s, p) == healthCheck(s)

\* 'bind: permission denied', lines 219-222
OnPermissionDenied(s) == Exit(s, 0, "permdenied")

\* any other output, lines 223-231; process.exit() without an argument
\* ends the process with code 0
OnOtherOutput(s, p) ==
  IF ~s.initialized[p] THEN Exit(s, 0, "unclassified") ELSE s

\* processKubectlLog(logLine, pod, child), by the class of the line
processKubectlLog(s, kind, p, child) ==
  CASE kind = "established" -> OnForwardingFrom(s, p)
    [] kind = "handling" -> s
    [] kind = "fwderror" -> OnForwardingError(s, p)
    [] kind = "portinuse" -> Exclude(s, p, child)
    [] kind = "permdenied" -> OnPermissionDenied(s)
    [] OTHER -> OnOtherOutput(s, p)

\* a 'data' event of the stdout or stderr of process pid; output written
\* before a kill can still be delivered until the streams close
ProcessLog(pid, kind) ==
  /\ ~exited
  /\ pid \in 1..Len(procs)
  /\ procs[pid].st \in {"live", "killed"}
  /\ Commit(processKubectlLog(Cur, kind, procs[pid].owner, pid))
  /\ UNCHANGED envVars

\* the 'close' handler of lines 143-147
closeHandler(s, pid) ==
  LET p == s.procs[pid].owner
  IN  [s EXCEPT !.procs[pid].st = "closed",
                !.restartingState[p] = FALSE,
                !.initialized[p] = FALSE]

\* process pid ends (by itself or after a kill) and its 'close' event is
\* delivered
Close(pid) ==
  /\ ~exited
  /\ pid \in 1..Len(procs)
  /\ procs[pid].st \in {"live", "killed"}
  /\ Commit(closeHandler(Cur, pid))
  /\ UNCHANGED envVars

(* ------------------------------ signals -------------------------------- *)
\* SIGHUP, SIGINT, SIGTERM: process.exit(1 | 2 | 15), lines 408-421
Signal(code) ==
  /\ ~exited
  /\ Commit(Exit(Cur, code, "signal"))
  /\ UNCHANGED envVars

\* the cluster and the network settle for good
Stabilise ==
  /\ ~exited
  /\ ~stable
  /\ stable' = TRUE
  /\ UNCHANGED << runningPods, podVars, procs, chains, restartAttempt,
                  healthPending, initPc, healthTimer, exited, exitCode,
                  exitReason, failedCount, lim, call, ret >>

(* --------------------------- configuration ----------------------------- *)
\* a port that is not given (undefined, or any other falsy value)
NoPort == 0
NoNamespace == "undefined"

Ports == { 8080, 5432, 5433 }
Namespaces == { "default", "staging" }

\* an entry of pods.json: a bare port, or a record with from, to and
\* namespace, each of which may be missing
Entry(b, f, t, n) == [bare |-> b, from |-> f, to |-> t, namespace |-> n]

Entries ==
  { Entry(b, NoPort, NoPort, NoNamespace) : b \in Ports }
    \cup { Entry(NoPort, f, t, n) :
             f \in Ports \cup {NoPort}, t \in Ports \cup {NoPort},
             n \in {NoNamespace, "staging"} }

\* getPodMeta for a token split(':') of which leaves the given ports
\* after the name; defined and entry are systemDefinedPods[fullPodName],
\* namespace is the module-level namespace
getPodMeta(ports, defined, entry, namespace) ==
  IF Len(ports) > 0
  THEN [threw |-> FALSE,
        from |-> ports[1],
        to |-> IF Len(ports) = 2 THEN ports[2] ELSE ports[1],
        namespace |-> namespace]
  ELSE IF ~defined
  THEN [threw |-> TRUE, from |-> NoPort, to |-> NoPort,
        namespace |-> NoNamespace]
  ELSE LET podPort == IF entry.bare # NoPort THEN entry.bare ELSE entry
       IN  IF entry.bare = NoPort /\ entry.to # NoPort
           THEN [threw |-> FALSE, from |-> entry.from, to |-> entry.to,
                 namespace |-> namespace]
           ELSE [threw |-> FALSE, from |-> podPort, to |-> podPort,
                 namespace |-> namespace]

MetaCalls ==
  { [fn |-> "getPodMeta", ports |-> << >>, defined |-> TRUE, entry |-> e,
     namespace |-> n] :
      e \in Entries, n \in Namespaces \cup {NoNamespace} }
    \cup { [fn |-> "getPodMeta", ports |-> ps, defined |-> FALSE,
            entry |-> Entry(NoPort, NoPort, NoPort, NoNamespace),
            namespace |-> n] :
             ps \in { << >>, << 8080 >>, << 8080, 5433 >> },
             n \in Namespaces \cup {NoNamespace} }

\* podsToForward.forEach: getPodMeta(podName) is applied
GetPodMetaCall ==
  /\ call # NoCall
  /\ call.fn = "getPodMeta"
  /\ ret = NoCall
  /\ ret' = getPodMeta(call.ports, call.defined, call.entry, call.namespace)
  /\ UNCHANGED << runningPods, podVars, procs, chains, restartAttempt,
                  healthPending, initPc, healthTimer, exited, exitCode,
                  exitReason, failedCount, stable, lim, call >>

(* ------------------------- getPodId on its own ------------------------- *)
MaxTableLen == 2

MatchLines ==
  { LineOf(n, r, s) :
      n \in { << "w", "1" >>, << "w", "2" >>, << "d", "1" >> },
      r \in { << "0", "/", "1" >>, << "0", "/", "1", "2" >> },
      s \in { "Running", "Pending", "Init:0/1" } }

MatchTables ==
  UNION { [1..n -> MatchLines] : n \in 0..MaxTableLen }

MatchCalls ==
  { [fn |-> "getPodId", rawPods |-> t, podName |-> n, silent |-> b] :
      t \in MatchTables, n \in { << "w" >>, << "d" >> }, b \in BOOLEAN }

GetPodIdCall ==
  /\ call # NoCall
  /\ call.fn = "getPodId"
  /\ ret = NoCall
  /\ ret' = getPodId(call.rawPods, call.podName, call.silent)
  /\ UNCHANGED << runningPods, podVars, procs, chains, restartAttempt,
                  healthPending, initPc, healthTimer, exited, exitCode,
                  exitReason, failedCount, stable, lim, call >>

(* --------------------------- specifications ---------------------------- *)
InitWith(pods, l) ==
  /\ runningPods = pods
  /\ id = [p \in Pods |-> NoId]
  /\ initialized = [p \in Pods |-> FALSE]
  /\ restartingState = [p \in Pods |-> FALSE]
  /\ excluded = [p \in Pods |-> FALSE]
  /\ childProcess = [p \in Pods |-> NoProc]
  /\ initInterval = [p \in Pods |-> NoTimer]
  /\ procs = << >>
  /\ chains = [p \in Pods |-> [c \in 1..l.chains |-> IdleChain]]
  /\ restartAttempt = 0
  /\ healthPending = 0
  /\ initPc = "query"
  /\ healthTimer = FALSE
  /\ exited = FALSE
  /\ exitCode = 0
  /\ exitReason = "none"
  /\ failedCount = 0
  /\ stable = FALSE
  /\ lim = l

Limits(np, nc, nw) == [procs |-> np, chains |-> nc, wait |-> nw]

\* no function is applied on its own in a run of the program
Uncalled == call = NoCall /\ ret = NoCall

\* two sessions
InitDuo ==
  InitWith(<< 1, 2 >>, Limits(DuoProcs, DuoChains, MaxWait)) /\ Uncalled

\* one session
InitSolo ==
  InitWith(<< 1 >>, Limits(SoloProcs, SoloChains, MaxWait)) /\ Uncalled

Init == InitDuo \/ InitSolo

Next ==
  \/ \E r \in Results : FormalInitDone(r)
  \/ FormalInitTimer
  \/ Tick
  \/ \E r \in Results : HealthCheckDone(r)
  \/ \E p \in Pods, c \in 1..lim.chains, r \in Results :
       TryReinitDone(p, c, r)
  \/ \E p \in Pods, c \in 1..lim.chains : RetryTimer(p, c)
  \/ \E pid \in 1..Len(procs), kind \in LogKinds : ProcessLog(pid, kind)
  \/ \E pid \in 1..Len(procs) : Close(pid)
  \/ \E code \in Signals : Signal(code)

Spec == Init /\ [][Next]_vars

\* one session, and a workload that may never be listed again
InitRetry ==
  InitWith(<< 1 >>, Limits(RetryProcs, RetryChains, maxAttempt + 1))
    /\ Uncalled

SpecRetry == InitRetry /\ [][Next]_vars

\* getPodMeta applied to an entry of the configuration or to a
\* name:port[:port] token
InitMeta ==
  /\ InitWith(<< >>, Limits(0, 0, 0))
  /\ call \in MetaCalls
  /\ ret = NoCall

SpecMeta == InitMeta /\ [][GetPodMetaCall]_vars

\* getPodId applied to a table, a name and the silent flag
InitMatch ==
  /\ InitWith(<< >>, Limits(0, 0, 0))
  /\ call \in MatchCalls
  /\ ret = NoCall

SpecMatch == InitMatch /\ [][GetPodIdCall]_vars

\* one session, under the scheduling of the event loop: armed timers
\* fire, issued queries complete, a killed process ends; the cluster may
\* settle for good
FairNext == Next \/ Stabilise

KilledClose(pid) ==
  /\ pid \in 1..Len(procs)
  /\ procs[pid].st = "killed"
  /\ Close(pid)

Fairness ==
  /\ WF_vars(Tick)
  /\ WF_vars(FormalInitTimer)
  /\ WF_vars(\E r \in Results : FormalInitDone(r))
  /\ WF_vars(\E r \in Results : HealthCheckDone(r))
  /\ \A p \in Pods, c \in 1..SoloChains :
       /\ WF_vars(c \in 1..lim.chains /\ \E r \in Results : TryReinitDone(p, c, r))
       /\ WF_vars(c \in 1..lim.chains /\ RetryTimer(p, c))
  /\ \A pid \in 1..SoloProcs : WF_vars(KilledClose(pid))

FairSpec == InitSolo /\ [][FairNext]_vars /\ Fairness


(* ============================== claims ================================= *)
NetErr == [kind |-> "neterr", table |-> << >>]

ProcState(pid) == IF pid = NoProc THEN "none" ELSE procs[pid].st

LiveProcs(p) ==
  { pid \in 1..Len(procs) : procs[pid].owner = p /\ procs[pid].st = "live" }

ActiveChains(p) == { c \in 1..lim.chains : chains[p][c].st # "idle" }

PendingTimers(p) == { c \in 1..lim.chains : chains[p][c].st = "timer" }

\* the fields of session p, its process and its reconnection closures are
\* the same after the step
SessionUntouched(p) ==
  /\ id'[p] = id[p]
  /\ initialized'[p] = initialized[p]
  /\ restartingState'[p] = restartingState[p]
  /\ excluded'[p] = excluded[p]
  /\ childProcess'[p] = childProcess[p]
  /\ initInterval'[p] = initInterval[p]
  /\ chains'[p] = chains[p]
  /\ \A pid \in 1..Len(procs) :
       procs[pid].owner = p => procs'[pid] = procs[pid]

(* C3, as stated: a health-check tick whose query returns a network error
   leaves every session's process, flags, instanceId and pending timer as
   they were. *)
C3_NetErrTickTouchesNothing ==
  [][HealthCheckDone(NetErr) => \A p \in Pods : SessionUntouched(p)]_vars

(* C3, amended: a health-check tick whose query returns a network error
   starts no reconnection and changes no session's Restarting flag,
   instanceId, process handle or pending timer; a session of the active
   set that is Forwarding-Active has its process killed and its
   Forwarding-Active flag cleared, and every other session is untouched. *)
C3_NetErrTickKillsActiveOnly ==
  [][HealthCheckDone(NetErr) =>
       /\ Len(procs') = Len(procs)
       /\ runningPods' = runningPods
       /\ \A p \in Pods :
            IF Active(p) /\ initialized[p]
            THEN /\ ~initialized'[p]
                 /\ ProcState(childProcess[p])' # "live"
                 /\ id'[p] = id[p]
                 /\ restartingState'[p] = restartingState[p]
                 /\ childProcess'[p] = childProcess[p]
                 /\ initInterval'[p] = initInterval[p]
                 /\ chains'[p] = chains[p]
                 /\ \A pid \in 1..Len(procs) :
                      (procs[pid].owner = p /\ pid # childProcess[p])
                        => procs'[pid] = procs[pid]
            ELSE SessionUntouched(p)]_vars

\* a session that was Forwarding-Active has lost its tunnel to a network
\* error of a health-check query: no reconnection has ever been started
C3_Witness ==
  /\ ~exited
  /\ restartAttempt > 0
  /\ healthTimer
  /\ \E p \in Pods :
       /\ Active(p)
       /\ ~initialized[p]
       /\ ~restartingState[p]
       /\ initInterval[p] = NoTimer
       /\ ActiveChains(p) = {}
       /\ Len(procs) = Len(runningPods)
       /\ ProcState(childProcess[p]) = "killed"


\* the step excludes session p
Excludes(p) == ~excluded[p] /\ excluded'[p]

(* C9: an exclusion removes its own session from the active set and
   nothing else: while another session remains the run goes on and every
   other session's process, flags, instanceId and membership are as they
   were; the run ends, with code 0, exactly when the exclusion empties the
   active set.  No other step removes a session from the active set. *)
C9_ExclusionIsSessionScoped ==
  [][/\ \A p \in Pods :
          Excludes(p) =>
            /\ Active(p)
            /\ runningPods' = Pull(runningPods, p)
            /\ IF runningPods' = << >>
               THEN exited' /\ exitCode' = 0
               ELSE /\ ~exited'
                    /\ \A q \in Pods \ {p} : SessionUntouched(q)
     /\ runningPods' # runningPods => \E p \in Pods : Excludes(p)]_vars

\* one session has been excluded and the other one is still forwarding
C9_Witness ==
  /\ ~exited
  /\ \E p \in Pods, q \in Pods :
       /\ p # q
       /\ excluded[p]
       /\ ~Active(p)
       /\ Active(q)
       /\ initialized[q]
       /\ ProcState(childProcess[q]) = "live"

\* some line of the table starts with the session's name and is Running
HasRunning(t, p) ==
  \E i \in 1..Len(t) :
    StartsWith(t[i].name, PodName[p]) /\ t[i].status = "Running"

(* C10: startup is all-or-nothing.  Until formalInit has resolved every
   session no tunnel process exists and no health check is armed or due;
   when the first table lacks a Running instance of some session, nothing
   is spawned and bring-up fails; when the query returns a network error
   bring-up waits for its timer and nothing is spawned; otherwise every
   session gets its tunnel. *)
C10_StartupAllOrNothing ==
  [][/\ initPc' # "done" =>
          (procs' = << >> /\ ~healthTimer' /\ healthPending' = 0)
     /\ \A r \in Results :
          FormalInitDone(r) =>
            IF r.kind = "neterr"
            THEN initPc' = "timer" /\ ~exited'
            ELSE IF r.kind = "fatal"
            THEN exited' /\ initPc' = "query"
            ELSE IF \E p \in Pods : Active(p) /\ ~HasRunning(r.table, p)
            THEN initPc' = "failed" /\ exited'
            ELSE /\ initPc' = "done"
                 /\ healthTimer'
                 /\ Len(procs') = Len(runningPods)
                 /\ \A p \in Pods :
                      Active(p) => ProcState(childProcess[p])' = "live"]_vars

\* bring-up failed on the second session after the first one had been
\* resolved, and no tunnel was spawned
C10_Witness ==
  /\ initPc = "failed"
  /\ procs = << >>
  /\ \E p \in Pods, q \in Pods :
       Active(p) /\ Active(q) /\ id[p] # NoId /\ id[q] = NoId


(* C5: no duplicate reconnection: at any time at most one tryReinitPod
   closure of a session has a query in flight or a timer pending. *)
C5_OneReconnectionPerSession ==
  \A p \in Pods : Cardinality(ActiveChains(p)) <= 1

(* C6: in every reachable state each session has at most one pending
   retry timer. *)
C6_OnePendingTimer ==
  \A p \in Pods : Cardinality(PendingTimers(p)) <= 1

(* C7: in every reachable state each session has at most one live tunnel
   process, and it is the one stored in the session's process handle. *)
C7_OneLiveProcess ==
  \A p \in Pods :
    /\ Cardinality(LiveProcs(p)) <= 1
    /\ \A pid \in LiveProcs(p) : childProcess[p] = pid

(* C8: once a session has been excluded by a 'port already in use' line,
   no tunnel process is spawned for it again. *)
C8_NoSpawnAfterExclusion ==
  [][\A p \in Pods :
       excluded[p] =>
         \A pid \in (Len(procs) + 1)..Len(procs') : procs'[pid].owner # p]_vars


(* C2: in one run of the reconnection protocol no 21st match attempt is
   made: a closure that has failed maxAttempt times issues no further
   query. *)
C2_NoTwentyFirstAttempt ==
  \A p \in Pods, c \in 1..lim.chains :
    chains[p][c].st = "query" => chains[p][c].attempt < maxAttempt

\* the run has used every process or closure the model allows
AtBound == Len(procs) >= lim.procs

\* session p is Restarting and nothing is left that would re-forward it:
\* no tunnel, no query in flight, no timer pending
Stranded(p) ==
  /\ ~exited
  /\ Active(p)
  /\ restartingState[p]
  /\ ActiveChains(p) = {}
  /\ LiveProcs(p) = {}

(* C4: a session in Restarting whose reconnection attempt hit a network
   error does not stay in Restarting for ever with no attempt pending
   once queries succeed again. *)
C4_NetErrAttemptIsRetried ==
  \A p \in Pods : (stable /\ Stranded(p)) ~> (~Stranded(p) \/ AtBound)

(* C1: recovery liveness: whenever a session has been declared dead and
   from then on every query succeeds and lists a Running instance of its
   workload, a tunnel process is eventually spawned for it (unless the
   run ends or the session is excluded first). *)
C1_RecoveryLiveness ==
  \A p \in Pods :
    (stable /\ ~exited /\ Active(p) /\ restartingState[p])
      ~> (exited \/ ~Active(p) \/ LiveProcs(p) # {} \/ AtBound)

(* C11: a 'Forwarding from' line of a process that has not closed sets the
   Forwarding-Active flag of its session and nothing else; received while
   the session is already Forwarding-Active it changes nothing at all, and
   handling the line twice gives the state that handling it once gives. *)
C11_ForwardingFromIdempotent ==
  \A pid \in 1..Len(procs) :
    (~exited /\ procs[pid].st \in {"live", "killed"}) =>
      LET p == procs[pid].owner
          s1 == processKubectlLog(Cur, "established", p, pid)
          s2 == processKubectlLog(s1, "established", p, pid)
      IN  /\ s1 = [Cur EXCEPT !.initialized[p] = TRUE]
          /\ initialized[p] => s1 = Cur
          /\ s2 = s1

\* a session has been made Forwarding-Active by its tunnel, which is
\* still running and may print the line again, while a reconnection of
\* another cycle of the same session is pending
C11_Witness ==
  /\ ~exited
  /\ \E p \in Pods :
       /\ Active(p)
       /\ initialized[p]
       /\ restartingState[p]
       /\ ProcState(childProcess[p]) = "live"

(* C12: when the run ends because of a 'bind: permission denied' line or
   because a reconnection ran out of attempts, the exit code is not 0 (the
   code of the exit that follows the exclusion of the last session). *)
C12_FatalExitsNonZero ==
  (exited /\ exitReason \in {"permdenied", "exhausted"}) => exitCode # 0

(* C13: whenever the run exits, every session of the active set has had a
   kill attempted on its process: a session with a process has it no
   longer running, a session without a process is counted as a failed
   kill, and the count is the number of all such sessions (a failed kill
   does not stop the loop). *)
C13_CleanupKillsEveryActiveSession ==
  [][(~exited /\ exited') =>
       /\ \A p \in Pods :
            (Active(p)' /\ childProcess'[p] # NoProc)
              => procs'[childProcess'[p]].st # "live"
       /\ failedCount' =
            Cardinality({ p \in Pods :
                            Active(p)' /\ childProcess'[p] = NoProc })]_vars

\* the run was ended by a signal before any tunnel was spawned: both
\* kills have failed and both were counted
C13_Witness ==
  /\ exited
  /\ exitReason = "signal"
  /\ Len(runningPods) = 2
  /\ failedCount = 2

(* C14: the session built from a configuration entry given as a record
   {from, to, namespace} has from and to of the entry and the namespace of
   the entry; the session built from a bare-port entry has from = to =
   the port and the default (global) namespace. *)
C14_EntryNamespaceKept ==
  (ret # NoCall /\ call.fn = "getPodMeta" /\ call.defined
     /\ call.ports = << >>) =>
    LET e == call.entry
    IN  /\ (e.bare # NoPort) =>
              /\ ret.from = e.bare
              /\ ret.to = e.bare
              /\ ret.namespace = call.namespace
        /\ (e.bare = NoPort /\ e.from # NoPort /\ e.to # NoPort
               /\ e.namespace # NoNamespace) =>
              /\ ret.from = e.from
              /\ ret.to = e.to
              /\ ret.namespace = e.namespace

\* the lines of the table of the call that start with its name, and the
\* positions of those that are Running
PrefixLines ==
  SelectSeq(call.rawPods, LAMBDA l : StartsWith(l.name, call.podName))

RunningAt == { i \in 1..Len(PrefixLines) : PrefixLines[i].status = "Running" }

(* C15: getPodId returns an id exactly when a line starting with the name
   is Running, and then the id of the first such line; when lines start
   with the name but none is Running, it throws an error naming the
   status of one of them unless silent; when no line starts with the name
   it throws the 'Could not find pod' error unless silent; when silent it
   returns not-found in both cases and never throws. *)
C15_MatchInstance ==
  (ret # NoCall /\ call.fn = "getPodId") =>
    /\ ret.found <=> RunningAt # {}
    /\ ret.found =>
         /\ ~ret.threw
         /\ \E i \in RunningAt :
              /\ ret.id = PrefixLines[i].name
              /\ \A j \in RunningAt : i <= j
    /\ call.silent => ~ret.threw
    /\ (~call.silent /\ RunningAt = {} /\ Len(PrefixLines) > 0) =>
         /\ ret.threw
         /\ \E i \in 1..Len(PrefixLines) : ret.error = PrefixLines[i].status
    /\ (~call.silent /\ Len(PrefixLines) = 0) =>
         /\ ret.threw
         /\ ret.error = "unknown"

\* session p is forwarding through process pid
Forwarding(p, pid) ==
  /\ Active(p)
  /\ childProcess[p] = pid
  /\ procs[pid].st = "live"
  /\ ~restartingState[p]

\* session p has been declared dead by the step: Restarting is set, the
\* Forwarding-Active flag is cleared, its process is no longer running
\* and a tryReinitPod query is in flight
DeclaredDead(p) ==
  /\ restartingState'[p]
  /\ ~initialized'[p]
  /\ ProcState(childProcess[p])' # "live"
  /\ \E c \in 1..lim.chains :
       chains'[p][c] = [st |-> "query", attempt |-> 0]

(* C16, as stated: an 'an error occurred forwarding' line of the process
   of a session in a forwarding state has that process killed and the
   session Restarting with a reconnection started, whatever the cluster
   table lists. *)
C16_ForwardingErrorRestarts ==
  [][\A pid \in 1..Len(procs) :
       (ProcessLog(pid, "fwderror") /\ Forwarding(procs[pid].owner, pid))
         => DeclaredDead(procs[pid].owner)]_vars

(* C16, amended: an 'an error occurred forwarding' line only issues a
   health-check query: the step changes nothing but the number of queries
   in flight.  A session becomes Restarting only on the completion of a
   successful health-check query, and only if that query's table does not
   list its instanceId as Running or the session is not Forwarding-Active. *)
C16_ForwardingErrorOnlyChecks ==
  [][/\ \A pid \in 1..Len(procs) :
          ProcessLog(pid, "fwderror") =>
            /\ healthPending' = healthPending + 1
            /\ UNCHANGED << runningPods, podVars, procs, chains,
                            restartAttempt, initPc, healthTimer, exited >>
     /\ \A p \in Pods :
          (~restartingState[p] /\ restartingState'[p]) =>
            \E r \in Results :
              /\ r.kind = "ok"
              /\ HealthCheckDone(r)
              /\ Active(p)
              /\ ~HealthMatch(r.table, id[p]) \/ ~initialized[p]]_vars

\* a query of healthCheck is in flight while a session is
\* Forwarding-Active through a running process that can report a
\* forwarding error, and its instance is what every table lists
C16_Witness ==
  /\ ~exited
  /\ healthPending > 0
  /\ \E p \in Pods :
       /\ initialized[p]
       /\ childProcess[p] # NoProc
       /\ Forwarding(p, childProcess[p])

\* session p is Forwarding-Initializing: its process runs and has not
\* reported 'Forwarding from' yet
Initializing(p, pid) ==
  /\ Forwarding(p, pid)
  /\ ~initialized[p]

(* C17: output of a process that matches no known pattern ends the run
   only if the session is Forwarding-Initializing; in any other phase it
   changes no session state and does not end the run. *)
C17_UnclassifiedFatalOnlyWhenInitializing ==
  [][\A pid \in 1..Len(procs) :
       (ProcessLog(pid, "other") /\ ~Initializing(procs[pid].owner, pid))
         => /\ ~exited'
            /\ \A p \in Pods : SessionUntouched(p)]_vars

\* the table lists the instance id itself as Running
ExactRunning(rawPods, podId) ==
  \E i \in 1..Len(rawPods) :
    rawPods[i].name = podId /\ rawPods[i].status = "Running"

(* C18: on the completion of a successful health-check query a session of
   the active set is declared dead if and only if it is not Restarting
   and its exact instanceId is not listed as Running or it is not
   Forwarding-Active; every other session is left as it was. *)
C18_DeadIffExactIdMissing ==
  [][\A r \in Results :
       (r.kind = "ok" /\ HealthCheckDone(r)) =>
         \A p \in Pods :
           IF /\ Active(p)
              /\ ~restartingState[p]
              /\ ~ExactRunning(r.table, id[p]) \/ ~initialized[p]
           THEN DeclaredDead(p)
           ELSE SessionUntouched(p)]_vars

\* the names of the lines of table t that start with the name of session
\* p and are Running, in table order
RunningNames(t, p) ==
  LET ls == SelectSeq(t, LAMBDA l : StartsWith(l.name, PodName[p])
                                     /\ l.status = "Running")
  IN  [i \in 1..Len(ls) |-> ls[i].name]

\* s is what the callback of the tryReinitPod query of closure c of
\* session p makes of the current state when the table of r lists a
\* Running instance
Reforwarded(p, c, r, s) ==
  s.ovf \/
    /\ s.id[p] = RunningNames(r.table, p)[1]
    /\ s.procs = Append(procs, [owner |-> p, st |-> "live",
                                target |-> s.id[p]])
    /\ s.childProcess[p] = Len(s.procs)
    /\ s.chains[p] = [chains[p] EXCEPT ![c] = IdleChain]
    /\ s.initInterval = initInterval
    /\ ~s.exited

\* whichever tryReinitPod query completes next with a Running instance
\* listed
EveryMatchReforwards ==
  ~exited =>
    \A p \in Pods, c \in 1..lim.chains :
      chains[p][c].st = "query" =>
        \A r \in Results :
          (r.kind = "ok" /\ RunningNames(r.table, p) # << >>)
            => Reforwarded(p, c, r, tryReinitPod(Cur, p, c, r))

(* C19: a reconnection cycle starts with attempt 0 whatever earlier cycles
   of the session went through, and a tryReinitPod query that finds a
   Running instance sets the session's instanceId to the first one listed,
   spawns exactly one tunnel against it, which becomes the session's
   process, and ends the cycle: its closure is done, no timer is armed and
   no other closure is started. *)
C19_AttemptBudgetPerCycle ==
  /\ []EveryMatchReforwards
  /\ [][\A p \in Pods, c \in 1..lim.chains :
          (chains[p][c].st = "idle" /\ chains'[p][c].st # "idle")
            => chains'[p][c] = [st |-> "query", attempt |-> 0]]_vars

\* a session was forwarded again by a cycle that had failed attempts
\* before its match, and a later cycle of that session is on its first
\* query
C19_Witness ==
  /\ ~exited
  /\ \E p \in Pods :
       /\ Active(p)
       /\ initInterval[p] # NoTimer
       /\ \E pid \in 1..Len(procs) :
            /\ procs[pid].owner = p
            /\ pid > Len(runningPods)
            /\ childProcess[p] = pid
       /\ \E c \in 1..lim.chains :
            chains[p][c] = [st |-> "query", attempt |-> 0]

\* a step that takes a query out of flight
QueryLeaves ==
  \/ initPc = "query" /\ initPc' # "query"
  \/ healthPending' < healthPending
  \/ \E p \in Pods, c \in 1..lim.chains :
       chains[p][c].st = "query" /\ chains'[p][c].st # "query"

\* the error text has one of the four signatures
HasSignature(stderr) ==
  \E i \in 1..Len(stderr), x \in { "network is unreachable",
                                   "handshake timeout", "network is down",
                                   "i/o timeout" } : stderr[i] = x

\* s is what a callback of getPods makes of the current state when the
\* query has result r
Classified(r, s) ==
  s.ovf \/
    IF r.kind = "ok"
    THEN s.restartAttempt = 0 /\ s.exitReason # "fatal"
    ELSE IF HasSignature(r.stderr)
    THEN ~s.exited /\ s.restartAttempt = restartAttempt + 1
    ELSE s.exited /\ s.exitReason = "fatal" /\ s.exitCode = 1

\* whichever query completes next, and whatever its result is
EveryQueryClassified ==
  ~exited =>
    \A r \in Results :
      /\ initPc = "query" => Classified(r, formalInit(Cur, r))
      /\ healthPending > 0 => Classified(r, healthCheckCallback(Cur, r))
      /\ \A p \in Pods, c \in 1..lim.chains :
           chains[p][c].st = "query"
             => Classified(r, tryReinitPod(Cur, p, c, r))

(* C20: a failed query whose error text carries 'network is unreachable',
   'handshake timeout', 'network is down' or 'i/o timeout' counts as one
   more consecutive network error and does not end the run; a failed
   query with any other text ends the run; a successful query resets the
   count of consecutive network errors, so that the recovery, which is
   logged when the count is positive, is logged on the first success only;
   nothing but the completion of a query changes the count. *)
C20_QueryClassification ==
  /\ []EveryQueryClassified
  /\ [][restartAttempt' # restartAttempt => QueryLeaves]_vars

\* a network error of a query killed the tunnel of a Forwarding-Active
\* session, and a later query has succeeded: the recovery has been logged
\* and the count is back at 0
C20_Witness ==
  /\ ~exited
  /\ restartAttempt = 0
  /\ Len(procs) = 1
  /\ procs[1].st = "killed"
  /\ \E p \in Pods :
       /\ Active(p)
       /\ childProcess[p] = 1
       /\ ~restartingState[p]
       /\ initInterval[p] = NoTimer

\* process pid was killed and its session has since been given a newly
\* spawned process
Stale(pid) ==
  /\ procs[pid].st = "killed"
  /\ childProcess[procs[pid].owner] > pid

(* C21: output or the close of a process that was killed and has since
   been replaced as its session's process changes neither the
   Forwarding-Active nor the Restarting flag of the session, does not
   exclude it and does not end the run. *)
C21_StaleProcessIsolated ==
  [][\A pid \in 1..Len(procs) :
       (Stale(pid)
          /\ (Close(pid) \/ \E kind \in LogKinds : ProcessLog(pid, kind)))
         => LET p == procs[pid].owner
            IN  /\ initialized'[p] = initialized[p]
                /\ restartingState'[p] = restartingState[p]
                /\ excluded'[p] = excluded[p]
                /\ runningPods' = runningPods
                /\ ~exited']_vars

\* session p is still Restarting although a reconnection has succeeded:
\* the process that tryReinitPod spawned for it is running
ReforwardedRestarting(p) ==
  /\ ~exited
  /\ Active(p)
  /\ restartingState[p]
  /\ ProcState(childProcess[p]) = "live"

(* C22: once a reconnection has succeeded and the new tunnel is running,
   the Restarting flag of the session is eventually cleared while that
   tunnel keeps running (so that later health ticks look at the session
   again), unless the run ends, the session is excluded or the new tunnel
   itself ends first. *)
C22_RestartingIsLeft ==
  \A p \in Pods :
    ReforwardedRestarting(p)
      ~> (~restartingState[p] \/ exited \/ ~Active(p)
            \/ ProcState(childProcess[p]) # "live")

====
